---- MODULE Spec2Model ----
(***************************************************************************)
(* A model of the jobly backend: the partial-update SQL composer           *)
(* (helpers/sql.js), the company search composer, update and lookup        *)
(* (models/company.js), the job search composer (models/job.js), and the   *)
(* gated user routes (routes/users.js).                                    *)
(*                                                                         *)
(* JavaScript strings built by template literals are TLA+ strings built    *)
(* with \o; a string produced by Array.prototype.join is the sequence of   *)
(* its pieces with the separator between them, so that the pieces can be   *)
(* counted again.  A JavaScript object is the sequence of its own          *)
(* enumerable (key, value) pairs in insertion order, with distinct keys.   *)
(***************************************************************************)
EXTENDS Integers, Sequences, FiniteSets, TLC

VARIABLES
    sqlCall,        \* the last call of sqlForPartialUpdate and its outcome
    faCall,         \* the last call of Company.findAll and its outcome
    dbLog,          \* what the Company methods handed to db.query on that call
    jobs,           \* the rows of the jobs table
    jobCall,        \* the last call of Job.findAll and its outcome
    reqs,           \* the requests in flight on the gated routes
    applications,   \* the rows of the applications table, as (username, job id) -> count
    appliedLog,     \* the `applied` answers given so far, (username, job id) -> count
    uniqueKey,      \* whether the applications table refuses a second equal row
    companies,      \* the rows of the companies table
    coCall          \* the last call of Company.update or Company.get and its outcome

vars == <<sqlCall, faCall, dbLog, jobs, jobCall, reqs, applications, appliedLog,
          uniqueKey, companies, coCall>>

sqlVars == <<sqlCall>>
companyOpVars == <<companies, coCall>>
companyVars == <<faCall, dbLog, companyOpVars>>
jobVars == <<jobs, jobCall>>
routeVars == <<reqs, applications, appliedLog, uniqueKey>>

(***************************************************************************)
(* JavaScript values.                                                      *)
(***************************************************************************)
JsNum(n) == [type |-> "number", num |-> n, str |-> ""]
JsStr(s) == [type |-> "string", num |-> 0, str |-> s]

\* Truthiness of a string: every string but the empty one.
Truthy(s) == s # ""

(***************************************************************************)
(* helpers/sql.js                                                          *)
(***************************************************************************)

\* The longest field-set the model passes to sqlForPartialUpdate.
MaxKeys == 3

UpdateKeys == {"name", "description", "numEmployees", "logoUrl"}
UpdateValues == {JsNum(1000), JsStr("/logos/logo2.png")}

\* Objects of at most MaxKeys own keys, as sequences of (key, value) pairs.
FieldSets ==
    UNION { { d \in [1..n -> [key : UpdateKeys, value : UpdateValues]] :
                \A i, j \in 1..n : i # j => d[i].key # d[j].key }
            : n \in 0..MaxKeys }

\* Column mappings: objects from field names to stored column names.
MappedKeys == {"numEmployees", "logoUrl"}
SqlColumns == {"num_employees", "logo_url"}
ColumnMappers == UNION { [ks -> SqlColumns] : ks \in SUBSET MappedKeys }

\* Object.keys(obj) and Object.values(obj)
ObjectKeys(obj) == [i \in 1..Len(obj) |-> obj[i].key]
ObjectValues(obj) == [i \in 1..Len(obj) |-> obj[i].value]

\* Array.prototype.join(sep), kept as the pieces with sep between them.
RECURSIVE Join(_, _)
Join(arr, sep) ==
    IF Len(arr) = 0 THEN <<>>
    ELSE IF Len(arr) = 1 THEN <<arr[1]>>
    ELSE <<arr[1], sep>> \o Join(Tail(arr), sep)

ColumnForMutant(jsToSql, colName) == colName

\* jsToSql[colName] || colName
ColumnFor(jsToSql, colName) ==
    IF colName \in DOMAIN jsToSql /\ Truthy(jsToSql[colName])
    THEN jsToSql[colName]
    ELSE colName

PlaceholderMutant(idx) == "$" \o ToString(idx)

\* $${idx + 1}, idx the 0-based index of Array.prototype.map
Placeholder(idx) == "$" \o ToString(idx + 1)

\* `"${jsToSql[colName] || colName}"=$${idx + 1}`
ColFragment(jsToSql, colName, idx) ==
    "\"" \o ColumnFor(jsToSql, colName) \o "\"=" \o Placeholder(idx)

EmptyCheckMutant(keys) == FALSE

\* keys.length === 0
EmptyCheck(keys) == Len(keys) = 0

sqlForPartialUpdate(dataToUpdate, jsToSql) ==
    LET keys == ObjectKeys(dataToUpdate)
        cols == [i \in 1..Len(keys) |-> ColFragment(jsToSql, keys[i], i - 1)]
    IN  IF EmptyCheck(keys)
        THEN [kind |-> "throw", error |-> "BadRequestError", message |-> "No data"]
        ELSE [kind |-> "return",
              setCols |-> Join(cols, ", "),
              values |-> ObjectValues(dataToUpdate)]

NoResult == [kind |-> "none"]

\* One call of sqlForPartialUpdate(dataToUpdate, jsToSql) on the arguments
\* the caller holds.
CallSqlForPartialUpdate ==
    /\ sqlCall.pc = "idle"
    /\ sqlCall' = [sqlCall EXCEPT
                      !.pc = "done",
                      !.result = sqlForPartialUpdate(sqlCall.dataToUpdate,
                                                     sqlCall.jsToSql)]
    /\ UNCHANGED <<companyVars, jobVars, routeVars>>

(***************************************************************************)
(* models/company.js: Company.findAll                                      *)
(***************************************************************************)
Undefined == [type |-> "undefined", num |-> 0, str |-> ""]

\* a > b on numbers; a comparison with undefined is false (NaN).
JsGreater(a, b) == a.type = "number" /\ b.type = "number" /\ a.num > b.num

\* The search filters a caller passes: the recognized criteria, each absent
\* or present, and one key the code does not know.
NameValues == {JsStr("net"), JsStr("")}
EmployeeValues == {JsNum(0), JsNum(10), JsNum(50)}
OtherValues == {JsStr("fake")}
RecognizedKeys == {"name", "minEmployees", "maxEmployees"}
FilterKeys == RecognizedKeys \cup {"notValid"}

FilterValues(key) ==
    CASE key = "name" -> NameValues
      [] key = "minEmployees" -> EmployeeValues
      [] key = "maxEmployees" -> EmployeeValues
      [] OTHER -> OtherValues

SearchFilters ==
    UNION { { f \in [ks -> NameValues \cup EmployeeValues \cup OtherValues] :
                \A k \in ks : f[k] \in FilterValues(k) }
            : ks \in SUBSET FilterKeys }

\* const { key } = searchFilters
FilterField(searchFilters, key) ==
    IF key \in DOMAIN searchFilters THEN searchFilters[key] ELSE Undefined

BaseSelect ==
    "SELECT handle, name, description, num_employees AS \"numEmployees\", logo_url AS \"logoUrl\" FROM companies"

RangeInvertedMutant(minEmployees, maxEmployees) ==
    JsGreater(maxEmployees, minEmployees)

\* minEmployees > maxEmployees
RangeInverted(minEmployees, maxEmployees) ==
    JsGreater(minEmployees, maxEmployees)

\* values.push(v); whereStatements.push(`${lhs} $${values.length}`)
PushPredicate(acc, lhs, v) ==
    LET values == Append(acc.values, v)
    IN  [values |-> values,
         whereStatements |->
            Append(acc.whereStatements, lhs \o " $" \o ToString(Len(values)))]

NoPredicates == [whereStatements |-> <<>>, values |-> <<>>]

RecognizedPredicatesMutant(name, minEmployees, maxEmployees) ==
    LET a1 == IF name # Undefined /\ Truthy(name.str)
              THEN PushPredicate(NoPredicates, "name ILIKE",
                                 JsStr("%" \o name.str \o "%"))
              ELSE NoPredicates
        a2 == IF minEmployees # Undefined /\ minEmployees.num # 0
              THEN PushPredicate(a1, "num_employees >=", minEmployees)
              ELSE a1
        a3 == IF maxEmployees # Undefined /\ maxEmployees.num # 0
              THEN PushPredicate(a2, "num_employees <=", maxEmployees)
              ELSE a2
    IN  a3

\* The three `!== undefined` blocks, in the order of the code.
RecognizedPredicates(name, minEmployees, maxEmployees) ==
    LET a1 == IF name # Undefined
              THEN PushPredicate(NoPredicates, "name ILIKE",
                                 JsStr("%" \o name.str \o "%"))
              ELSE NoPredicates
        a2 == IF minEmployees # Undefined
              THEN PushPredicate(a1, "num_employees >=", minEmployees)
              ELSE a1
        a3 == IF maxEmployees # Undefined
              THEN PushPredicate(a2, "num_employees <=", maxEmployees)
              ELSE a2
    IN  a3

WherePredicatesMutant(searchFilters) ==
    LET known == RecognizedPredicates(FilterField(searchFilters, "name"),
                                      FilterField(searchFilters, "minEmployees"),
                                      FilterField(searchFilters, "maxEmployees"))
    IN  IF "notValid" \in DOMAIN searchFilters
        THEN PushPredicate(known, "notValid =", searchFilters["notValid"])
        ELSE known

\* The destructuring of the three criteria and the predicates built of them.
WherePredicates(searchFilters) ==
    RecognizedPredicates(FilterField(searchFilters, "name"),
                         FilterField(searchFilters, "minEmployees"),
                         FilterField(searchFilters, "maxEmployees"))

ComposeQueryMutant(whereStatements) ==
    IF Len(whereStatements) > 0
    THEN <<BaseSelect, " WHERE ">> \o Join(whereStatements, " AND ")
            \o <<" ORDER BY name">>
    ELSE <<BaseSelect>>

\* query += ` WHERE ${whereStatements.join(" AND ")}`; query += " ORDER BY name"
ComposeQuery(whereStatements) ==
    (IF Len(whereStatements) > 0
     THEN <<BaseSelect, " WHERE ">> \o Join(whereStatements, " AND ")
     ELSE <<BaseSelect>>)
    \o <<" ORDER BY name">>

\* Company.findAll up to its await: the outcome, the locals at that point,
\* and the queries handed to db.query.
CompanyFindAll(searchFilters) ==
    IF RangeInverted(FilterField(searchFilters, "minEmployees"),
                     FilterField(searchFilters, "maxEmployees"))
    THEN [kind |-> "throw", error |-> "BadRequestError",
          whereStatements |-> <<>>, values |-> <<>>, queries |-> <<>>]
    ELSE LET w == WherePredicates(searchFilters)
             query == ComposeQuery(w.whereStatements)
         IN  [kind |-> "query", error |-> "",
              whereStatements |-> w.whereStatements, values |-> w.values,
              queries |-> <<[text |-> query, values |-> w.values]>>]

\* One call of Company.findAll(searchFilters).
CallCompanyFindAll ==
    /\ faCall.pc = "idle"
    /\ LET r == CompanyFindAll(faCall.searchFilters)
       IN  /\ faCall' = [faCall EXCEPT !.pc = "done", !.result = r]
           /\ dbLog' = dbLog \o r.queries
    /\ UNCHANGED <<sqlVars, jobVars, routeVars, companyOpVars>>

(***************************************************************************)
(* models/company.js: Company.update and Company.get, and the tables they  *)
(* are run against                                                         *)
(***************************************************************************)
CompanyColumns == {"name", "description", "num_employees", "logo_url"}
CompanyHandles == {"c1", "c2"}

\* A row of companies as it is before any update.
CompanyRow(h) ==
    [handle |-> h,
     cols |-> [c \in CompanyColumns |->
                 IF c = "num_employees" THEN JsNum(1) ELSE JsStr(h)]]

\* Nullable columns of a query result.
SqlNull == [null |-> TRUE, val |-> 0]
SqlNumber(n) == [null |-> FALSE, val |-> n]
SqlNullText == [null |-> TRUE, chars |-> <<>>]
SqlText(chars) == [null |-> FALSE, chars |-> chars]
SqlNullString == [null |-> TRUE, str |-> ""]
SqlString(s) == [null |-> FALSE, str |-> s]

\* Rows of jobs with the company they belong to.
CompanyJobRows ==
    { [id |-> 1, title |-> <<"J", "1">>, salary |-> 150000,
       equity |-> SqlNumber(1), company_handle |-> "c1"],
      [id |-> 2, title |-> <<"J", "2">>, salary |-> 175000,
       equity |-> SqlNull, company_handle |-> "c2"],
      [id |-> 5, title |-> <<"n", "e", "w">>, salary |-> 100000,
       equity |-> SqlNumber(2), company_handle |-> "c1"] }

\* The column mapping Company.update passes to sqlForPartialUpdate.
CompanyJsToSql ==
    [k \in {"numEmployees", "logoUrl"} |->
        IF k = "numEmployees" THEN "num_employees" ELSE "logo_url"]

HandleVarIdxMutant(values) == Len(values)

\* values.length + 1, the number in handleVarIdx
HandleVarIdx(values) == Len(values) + 1

\* The UPDATE statement as text: the SET clause of the composer between the
\* fixed pieces, and the placeholder of the handle.
UpdateQueryText(setCols, values) ==
    <<"UPDATE companies SET ">> \o setCols
        \o <<" WHERE handle = ", "$" \o ToString(HandleVarIdx(values)),
             " RETURNING handle, name, description, num_employees AS \"numEmployees\", logo_url AS \"logoUrl\"">>

\* The same statement as the database reads it: the column and the
\* parameter number of each assignment, and the parameter number of the
\* handle.
UpdateStatement(dataToUpdate, jsToSql, values) ==
    [set |-> [i \in 1..Len(dataToUpdate) |->
                [column |-> ColumnFor(jsToSql, dataToUpdate[i].key),
                 param |-> i]],
     where |-> HandleVarIdx(values)]

\* UPDATE companies SET ... WHERE handle = $k RETURNING ...: an error for a
\* parameter that is not bound or a column that does not exist, else the
\* table after the update and the rows it changed.
RECURSIVE ApplyAssignments(_, _, _)
ApplyAssignments(cols, set, params) ==
    IF Len(set) = 0 THEN cols
    ELSE ApplyAssignments([cols EXCEPT ![set[1].column] = params[set[1].param]],
                          Tail(set), params)

ExecuteUpdate(table, stmt, params) ==
    IF \/ stmt.where \notin 1..Len(params)
       \/ \E i \in 1..Len(stmt.set) :
             \/ stmt.set[i].param \notin 1..Len(params)
             \/ stmt.set[i].column \notin CompanyColumns
    THEN [ok |-> FALSE, table |-> table, rows |-> {}]
    ELSE LET hit == { row \in table : JsStr(row.handle) = params[stmt.where] }
             new(row) == [row EXCEPT
                            !.cols = ApplyAssignments(row.cols, stmt.set, params)]
         IN  [ok |-> TRUE,
              table |-> (table \ hit) \cup { new(row) : row \in hit },
              rows |-> { new(row) : row \in hit }]

NoCompany == [handle |-> "", cols |-> [c \in CompanyColumns |-> Undefined],
              jobs |-> {}]

\* Company.update(handle, data): the outcome, the queries handed to
\* db.query and the table afterwards.
CompanyUpdate(table, handle, data) ==
    LET composed == sqlForPartialUpdate(data, CompanyJsToSql)
    IN  IF composed.kind = "throw"
        THEN [kind |-> "throw", error |-> composed.error, queries |-> <<>>,
              table |-> table, company |-> NoCompany]
        ELSE LET params == composed.values \o <<JsStr(handle)>>
                 text == UpdateQueryText(composed.setCols, composed.values)
                 stmt == UpdateStatement(data, CompanyJsToSql, composed.values)
                 done == ExecuteUpdate(table, stmt, params)
                 queries == <<[text |-> text, values |-> params]>>
             IN  IF ~done.ok
                 THEN [kind |-> "throw", error |-> "Error", queries |-> queries,
                       table |-> done.table, company |-> NoCompany]
                 ELSE IF done.rows = {}
                 THEN [kind |-> "throw", error |-> "NotFoundError",
                       queries |-> queries, table |-> done.table,
                       company |-> NoCompany]
                 ELSE [kind |-> "return", error |-> "", queries |-> queries,
                       table |-> done.table,
                       company |-> LET row == CHOOSE row \in done.rows : TRUE
                                   IN  [handle |-> row.handle, cols |-> row.cols,
                                        jobs |-> {}]]

\* One call of Company.update(handle, data).
CallCompanyUpdate ==
    /\ coCall.pc = "idle"
    /\ coCall.op = "update"
    /\ LET r == CompanyUpdate(companies, coCall.handle, coCall.data)
       IN  /\ coCall' = [coCall EXCEPT !.pc = "done", !.result = r]
           /\ companies' = r.table
           /\ dbLog' = dbLog \o r.queries
    /\ UNCHANGED <<faCall, sqlVars, jobVars, routeVars>>

\* The columns of jobs that Company.get selects, of one job and of no job.
JobColumnsOf(job) ==
    [id |-> SqlNumber(job.id), title |-> SqlText(job.title),
     salary |-> SqlNumber(job.salary), equity |-> job.equity]
NullJobColumns ==
    [id |-> SqlNull, title |-> SqlNullText, salary |-> SqlNull, equity |-> SqlNull]

\* companies AS c FULL JOIN jobs AS j ON c.handle = j.company_handle: the
\* pairs that match, every company without a job beside null job columns,
\* and every job without a company beside null company columns.
FullJoin(table, jobsTable) ==
    { [handle |-> SqlString(c.handle), cols |-> c.cols, j |-> JobColumnsOf(job)] :
        <<c, job>> \in { pr \in table \X jobsTable :
                            pr[1].handle = pr[2].company_handle } }
    \cup
    { [handle |-> SqlString(c.handle), cols |-> c.cols, j |-> NullJobColumns] :
        c \in { c \in table :
                  \A job \in jobsTable : job.company_handle # c.handle } }
    \cup
    { [handle |-> SqlNullString, cols |-> NoCompany.cols, j |-> JobColumnsOf(job)] :
        job \in { job \in jobsTable :
                    \A c \in table : c.handle # job.company_handle } }

\* WHERE handle = $1: a comparison with NULL is not true.
WhereHandle(rows, handle) ==
    { row \in rows : ~row.handle.null /\ row.handle.str = handle }

\* Company.get(handle): the two queries, the rows of the second, and the
\* company built of them with one jobs entry per row.
CompanyGet(table, jobsTable, handle) ==
    LET params == <<JsStr(handle)>>
        queries == <<[text |-> <<"SELECT * FROM companies WHERE handle = $1">>,
                      values |-> params],
                     [text |-> <<"SELECT c.handle, c.name, c.description, c.num_employees AS \"numEmployees\", c.logo_url AS \"logoUrl\", j.title, j.salary, j.equity, j.id FROM companies AS c FULL JOIN jobs AS j ON c.handle = j.company_handle WHERE handle = $1">>,
                      values |-> params]>>
        rows == WhereHandle(FullJoin(table, jobsTable), handle)
    IN  IF Cardinality(rows) = 0
        THEN [kind |-> "throw", error |-> "NotFoundError", queries |-> queries,
              table |-> table, company |-> NoCompany]
        ELSE [kind |-> "return", error |-> "", queries |-> queries,
              table |-> table,
              company |-> LET first == CHOOSE row \in rows : TRUE
                          IN  [handle |-> first.handle.str, cols |-> first.cols,
                               jobs |-> { row.j : row \in rows }]]

\* One call of Company.get(handle).
CallCompanyGet ==
    /\ coCall.pc = "idle"
    /\ coCall.op = "get"
    /\ LET r == CompanyGet(companies, jobs, coCall.handle)
       IN  /\ coCall' = [coCall EXCEPT !.pc = "done", !.result = r]
           /\ dbLog' = dbLog \o r.queries
    /\ UNCHANGED <<companies, faCall, sqlVars, jobVars, routeVars>>

(***************************************************************************)
(* The specification of the composer alone: one call on each field-set and *)
(* each column mapping within the bounds.                                  *)
(***************************************************************************)
InitSql ==
    /\ sqlCall \in [pc : {"idle"}, dataToUpdate : FieldSets,
                    jsToSql : ColumnMappers, result : {NoResult}]
    /\ faCall = <<>>
    /\ dbLog = <<>>
    /\ companies = {}
    /\ coCall = <<>>
    /\ jobs = {}
    /\ jobCall = <<>>
    /\ reqs = <<>>
    /\ applications = <<>>
    /\ appliedLog = <<>>
    /\ uniqueKey = TRUE

NextSql == CallSqlForPartialUpdate

SpecSql == InitSql /\ [][NextSql]_vars

\* The pieces of a joined string that lie between the separators.
RECURSIVE SplitJoined(_, _)
SplitJoined(joined, sep) ==
    IF Len(joined) = 0 THEN <<>>
    ELSE IF joined[1] = sep THEN SplitJoined(Tail(joined), sep)
    ELSE <<joined[1]>> \o SplitJoined(Tail(joined), sep)

\* The column the claims expect for a key: the mapping's entry, else the key.
ExpectedColumn(jsToSql, key) ==
    IF key \in DOMAIN jsToSql THEN jsToSql[key] ELSE key

\* The text of a fragment: "<column>"=$<n>
FragmentText(column, n) == "\"" \o column \o "\"=$" \o ToString(n)

SqlReturned == sqlCall.pc = "done" /\ sqlCall.result.kind = "return"

\* C1: for a non-empty field-set, the SET clause has as many comma-joined
\* "<column>"=$n fragments as the values list has elements and as the
\* field-set has keys, and each fragment's column is the mapping's entry for
\* its key, or the key itself when the mapping has none.
C1_FragmentCount ==
    (sqlCall.pc = "done" /\ Len(sqlCall.dataToUpdate) > 0) =>
        /\ sqlCall.result.kind = "return"
        /\ LET frags == SplitJoined(sqlCall.result.setCols, ", ")
               n == Len(sqlCall.dataToUpdate)
           IN  /\ Len(frags) = n
               /\ Len(sqlCall.result.values) = n
               /\ Len(sqlCall.result.setCols) = 2 * n - 1
               /\ \A i \in 1..n :
                     \E p \in 1..n :
                        frags[i] = FragmentText(
                            ExpectedColumn(sqlCall.jsToSql,
                                           sqlCall.dataToUpdate[i].key), p)

\* A call with a mapped key and an unmapped key has returned.
C1_Witness ==
    /\ SqlReturned
    /\ Len(sqlCall.dataToUpdate) = 2
    /\ sqlCall.dataToUpdate[1].key \in DOMAIN sqlCall.jsToSql
    /\ sqlCall.dataToUpdate[2].key \notin DOMAIN sqlCall.jsToSql

\* C2: a call with an empty field-set throws BadRequestError("No data")
\* whatever the column mapping, and returns no SET clause and no values.
C2_EmptyThrows ==
    (sqlCall.pc = "done" /\ Len(sqlCall.dataToUpdate) = 0) =>
        /\ sqlCall.result.kind = "throw"
        /\ sqlCall.result.error = "BadRequestError"
        /\ sqlCall.result.message = "No data"
        /\ "setCols" \notin DOMAIN sqlCall.result
        /\ "values" \notin DOMAIN sqlCall.result

\* The empty field-set was passed with a non-empty column mapping.
C2_Witness ==
    /\ sqlCall.pc = "done"
    /\ Len(sqlCall.dataToUpdate) = 0
    /\ DOMAIN sqlCall.jsToSql # {}
    /\ sqlCall.result.kind = "throw"

\* C3: the i-th fragment, in the order of the input keys, carries the
\* placeholder $i counted from 1, and the i-th value is the input value of
\* the i-th key; the placeholders are 1..n without gap or repeat.
C3_PositionalAlignment ==
    SqlReturned =>
        LET frags == SplitJoined(sqlCall.result.setCols, ", ")
            d == sqlCall.dataToUpdate
        IN  /\ Len(frags) = Len(d)
            /\ \A i \in 1..Len(d) :
                  /\ frags[i] =
                        FragmentText(ExpectedColumn(sqlCall.jsToSql, d[i].key), i)
                  /\ sqlCall.result.values[i] = d[i].value

\* A call with three keys and two different values has returned.
C3_Witness ==
    /\ SqlReturned
    /\ Len(sqlCall.dataToUpdate) = 3
    /\ sqlCall.dataToUpdate[1].value # sqlCall.dataToUpdate[2].value

(***************************************************************************)
(* The specification of Company.findAll: one call on each filter object.   *)
(***************************************************************************)
InitCompany ==
    /\ sqlCall = <<>>
    /\ faCall \in [pc : {"idle"}, searchFilters : SearchFilters,
                   result : {NoResult}]
    /\ dbLog = <<>>
    /\ companies = {}
    /\ coCall = <<>>
    /\ jobs = {}
    /\ jobCall = <<>>
    /\ reqs = <<>>
    /\ applications = <<>>
    /\ appliedLog = <<>>
    /\ uniqueKey = TRUE

NextCompany == CallCompanyFindAll

SpecCompany == InitCompany /\ [][NextCompany]_vars

Present(key) == key \in DOMAIN faCall.searchFilters

\* C4: with both bounds present and minEmployees > maxEmployees the call
\* fails with BadRequestError whatever else the filters hold, no predicate
\* has been built and nothing was handed to db.query.
C4_RangeFailsFast ==
    (/\ faCall.pc = "done"
     /\ Present("minEmployees") /\ Present("maxEmployees")
     /\ faCall.searchFilters["minEmployees"].num
            > faCall.searchFilters["maxEmployees"].num) =>
        /\ faCall.result.kind = "throw"
        /\ faCall.result.error = "BadRequestError"
        /\ faCall.result.whereStatements = <<>>
        /\ faCall.result.values = <<>>
        /\ dbLog = <<>>

\* An inverted range was passed together with a name and an unknown key.
C4_Witness ==
    /\ faCall.pc = "done"
    /\ DOMAIN faCall.searchFilters = FilterKeys
    /\ faCall.searchFilters["minEmployees"] = JsNum(50)
    /\ faCall.searchFilters["maxEmployees"] = JsNum(10)
    /\ faCall.result.kind = "throw"

\* C5: with none of the three criteria present the query handed to the
\* database is the base SELECT followed by " ORDER BY name", with no WHERE
\* and no values; with predicates present the query still ends with
\* " ORDER BY name".
C5_BaseQueryAndOrdering ==
    (faCall.pc = "done" /\ faCall.result.kind = "query") =>
        /\ Len(dbLog) = 1
        /\ dbLog[1].text[Len(dbLog[1].text)] = " ORDER BY name"
        /\ Len(SelectSeq(dbLog[1].text, LAMBDA t : t = " ORDER BY name")) = 1
        /\ (DOMAIN faCall.searchFilters \cap RecognizedKeys = {}) =>
              /\ dbLog[1].text = <<BaseSelect, " ORDER BY name">>
              /\ dbLog[1].values = <<>>

\* A call without criteria was run.
C5_Witness ==
    /\ faCall.pc = "done"
    /\ DOMAIN faCall.searchFilters = {}
    /\ Len(dbLog) = 1

\* The filter object without the keys the code does not know.
StripUnrecognized(searchFilters) ==
    [k \in DOMAIN searchFilters \cap RecognizedKeys |-> searchFilters[k]]

\* C6: the outcome of a call, its query text and its value list, is the
\* outcome of the call on the same filters without the unrecognized keys,
\* and no unrecognized key or value is in the query or the values.
C6_UnrecognizedIgnored ==
    faCall.pc = "done" =>
        /\ faCall.result = CompanyFindAll(StripUnrecognized(faCall.searchFilters))
        /\ \A i \in 1..Len(faCall.result.values) :
              faCall.result.values[i] \notin OtherValues
        /\ Len(faCall.result.values)
              = Cardinality(DOMAIN faCall.searchFilters \cap RecognizedKeys)
              * (IF faCall.result.kind = "query" THEN 1 ELSE 0)

\* A call with a name and an unknown key was run and reached the database.
C6_Witness ==
    /\ faCall.pc = "done"
    /\ DOMAIN faCall.searchFilters = {"name", "notValid"}
    /\ faCall.result.kind = "query"

\* The predicate text and the value the claim expects of a present
\* criterion that is the k-th one added.
ExpectedPredicate(key, k) ==
    CASE key = "name" -> "name ILIKE $" \o ToString(k)
      [] key = "minEmployees" -> "num_employees >= $" \o ToString(k)
      [] key = "maxEmployees" -> "num_employees <= $" \o ToString(k)

ExpectedValue(key, v) ==
    IF key = "name" THEN JsStr("%" \o v.str \o "%") ELSE v

\* The present criteria in the order name, minEmployees, maxEmployees.
PresentInOrder ==
    SelectSeq(<<"name", "minEmployees", "maxEmployees">>, Present)

\* C11: a call that reaches the database has added one predicate and one
\* value per present criterion, in the order name, minEmployees,
\* maxEmployees; the k-th predicate uses $k and the k-th value is the
\* criterion's value (the name as %name%, the bounds with >= and <=); the
\* predicates are joined with AND; a criterion that is not undefined is
\* present, also 0 and the empty name.
C11_PredicatePerCriterion ==
    (faCall.pc = "done" /\ faCall.result.kind = "query") =>
        LET keys == PresentInOrder
            n == Len(keys)
            text == dbLog[1].text
            preds == [k \in 1..n |-> ExpectedPredicate(keys[k], k)]
        IN  /\ faCall.result.whereStatements = preds
            /\ dbLog[1].values =
                  [k \in 1..n |-> ExpectedValue(keys[k], faCall.searchFilters[keys[k]])]
            /\ n > 0 =>
                  /\ Len(text) = 2 * n + 2
                  /\ text[2] = " WHERE "
                  /\ SplitJoined(SubSeq(text, 3, Len(text) - 1), " AND ") = preds
                  /\ \A i \in 1..(n - 1) : text[2 + 2 * i] = " AND "

\* A call with the empty name, minEmployees 0 and a maxEmployees reached
\* the database with three predicates.
C11_Witness ==
    /\ faCall.pc = "done"
    /\ faCall.result.kind = "query"
    /\ Present("name") /\ faCall.searchFilters["name"] = JsStr("")
    /\ Present("minEmployees") /\ faCall.searchFilters["minEmployees"] = JsNum(0)
    /\ Present("maxEmployees")
    /\ Len(faCall.result.whereStatements) = 3

(***************************************************************************)
(* The specification of Company.update and Company.get: one call on each   *)
(* table of companies, each table of their jobs, each handle and each      *)
(* field-set.                                                              *)
(***************************************************************************)
CallHandles == CompanyHandles \cup {"nope"}

InitCompanyOps ==
    /\ sqlCall = <<>>
    /\ faCall = <<>>
    /\ dbLog = <<>>
    /\ companies \in SUBSET { CompanyRow(h) : h \in CompanyHandles }
    /\ jobs \in SUBSET { job \in CompanyJobRows :
                            \E c \in companies : c.handle = job.company_handle }
    /\ \E op \in {"update", "get"} :
          coCall \in [pc : {"idle"}, op : {op}, handle : CallHandles,
                      data : IF op = "update" THEN FieldSets ELSE {<<>>},
                      before : {companies}, result : {NoResult}]
    /\ jobCall = <<>>
    /\ reqs = <<>>
    /\ applications = <<>>
    /\ appliedLog = <<>>
    /\ uniqueKey = TRUE

NextCompanyOps ==
    \/ CallCompanyUpdate
    \/ CallCompanyGet

SpecCompanyOps == InitCompanyOps /\ [][NextCompanyOps]_vars

UpdateDone == coCall.pc = "done" /\ coCall.op = "update"
GetDone == coCall.pc = "done" /\ coCall.op = "get"

ExistedBefore(handle) == \E c \in coCall.before : c.handle = handle

\* The row of a company after the assignments of a field-set, last first.
RECURSIVE ExpectedCols(_, _)
ExpectedCols(cols, data) ==
    IF Len(data) = 0 THEN cols
    ELSE LET last == data[Len(data)]
             rest == ExpectedCols(cols, SubSeq(data, 1, Len(data) - 1))
         IN  [rest EXCEPT ![ExpectedColumn(CompanyJsToSql, last.key)] = last.value]

\* C12: an update with a field-set of n > 0 keys hands the database one
\* statement whose handle placeholder is $(n+1) and whose values are the
\* composer's n values followed by the handle; if no row has the handle the
\* call fails with NotFoundError and the table is as before, else the row
\* of the handle, and no other, has the new values; with the empty
\* field-set the call fails with BadRequestError and no query was issued.
C12_UpdateStatement ==
    UpdateDone =>
        LET n == Len(coCall.data)
            r == coCall.result
        IN  IF n = 0
            THEN /\ r.kind = "throw" /\ r.error = "BadRequestError"
                 /\ dbLog = <<>>
                 /\ companies = coCall.before
            ELSE /\ Len(dbLog) = 1
                 /\ Len(dbLog[1].text) = 2 * n + 3
                 /\ dbLog[1].text[2 * n + 1] = " WHERE handle = "
                 /\ dbLog[1].text[2 * n + 2] = "$" \o ToString(n + 1)
                 /\ SplitJoined(SubSeq(dbLog[1].text, 2, 2 * n), ", ") =
                       [i \in 1..n |->
                          FragmentText(ExpectedColumn(CompanyJsToSql,
                                                      coCall.data[i].key), i)]
                 /\ dbLog[1].values =
                       [i \in 1..(n + 1) |->
                          IF i <= n THEN coCall.data[i].value
                          ELSE JsStr(coCall.handle)]
                 /\ IF ExistedBefore(coCall.handle)
                    THEN /\ r.kind = "return"
                         /\ r.company.handle = coCall.handle
                         /\ r.company.cols =
                               ExpectedCols(CompanyRow(coCall.handle).cols,
                                            coCall.data)
                         /\ companies =
                               { IF c.handle = coCall.handle
                                 THEN [c EXCEPT !.cols = r.company.cols]
                                 ELSE c : c \in coCall.before }
                    ELSE /\ r.kind = "throw" /\ r.error = "NotFoundError"
                         /\ companies = coCall.before

\* An update of two fields of a handle no company has was run on a table
\* that is not empty, and failed with NotFoundError.
C12_Witness ==
    /\ UpdateDone
    /\ Len(coCall.data) = 2
    /\ coCall.handle = "nope"
    /\ coCall.before # {}
    /\ coCall.result.error = "NotFoundError"

\* C13: for a company that exists the jobs list has exactly one entry per
\* job whose company_handle is the handle, hence none for a company without
\* jobs and never an entry of nulls; for a handle no company has the call
\* fails with NotFoundError.
C13_JobsOfCompany ==
    GetDone =>
        IF ExistedBefore(coCall.handle)
        THEN /\ coCall.result.kind = "return"
             /\ coCall.result.company.jobs =
                   { JobColumnsOf(job) :
                       job \in { job \in jobs :
                                   job.company_handle = coCall.handle } }
             /\ \A e \in coCall.result.company.jobs : ~e.id.null
        ELSE /\ coCall.result.kind = "throw"
             /\ coCall.result.error = "NotFoundError"

(***************************************************************************)
(* routes/users.js behind middleware/auth.js                               *)
(***************************************************************************)

\* The number of requests in flight at once.
MaxReqs == 2

Usernames == {"u1", "u2"}
JobIds == {"1"}

\* The bearer token of a request: none, one that does not verify, or a
\* signed { username, isAdmin }.
NoToken == [kind |-> "none", username |-> "", isAdmin |-> FALSE]
BadToken == [kind |-> "invalid", username |-> "u1", isAdmin |-> TRUE]
SignedToken(u, a) == [kind |-> "valid", username |-> u, isAdmin |-> a]
Tokens == {NoToken, BadToken, SignedToken("u1", FALSE), SignedToken("u2", FALSE),
           SignedToken("u1", TRUE), SignedToken("admin", TRUE)}

\* res.locals.user: the claims of a token that verifies, else nothing.
NoClaims == [present |-> FALSE, username |-> "", isAdmin |-> FALSE]
AuthenticateJWT(token) ==
    IF token.kind = "valid"
    THEN [present |-> TRUE, username |-> token.username, isAdmin |-> token.isAdmin]
    ELSE NoClaims

\* The three policies of the gate.
GateDecision(policy, claims, routeUsername) ==
    CASE policy = "ensureLoggedIn" ->
            IF claims.present THEN "Allowed" ELSE "Denied"
      [] policy = "ensureAdmin" ->
            IF claims.present /\ claims.isAdmin THEN "Allowed" ELSE "Denied"
      [] policy = "ensureUserOrAdmin" ->
            IF claims.present /\ (claims.isAdmin \/ claims.username = routeUsername)
            THEN "Allowed" ELSE "Denied"

ApplyRoute == "POST /users/:username/jobs/:id"
UsernameRoutes == {"GET /users/:username", "PATCH /users/:username",
                   "DELETE /users/:username", ApplyRoute}
UserRoutes == {"POST /users", "GET /users"} \cup UsernameRoutes
JobRoutes == {"PATCH /jobs/:id", "DELETE /jobs/:id"}
Routes == UserRoutes \cup JobRoutes

UserRouteGateMutant(route) ==
    CASE route \in {"POST /users", "GET /users"} -> "ensureAdmin"
      [] route = "DELETE /users/:username" -> "ensureLoggedIn"
      [] OTHER -> "ensureUserOrAdmin"

\* The middleware each route of routes/users.js is registered with.
UserRouteGate(route) ==
    CASE route = "POST /users" -> "ensureAdmin"
      [] route = "GET /users" -> "ensureAdmin"
      [] route = "GET /users/:username" -> "ensureUserOrAdmin"
      [] route = "PATCH /users/:username" -> "ensureUserOrAdmin"
      [] route = ApplyRoute -> "ensureUserOrAdmin"
      [] route = "DELETE /users/:username" -> "ensureUserOrAdmin"

\* The middleware of the two job routes the route tests exercise.
JobRouteGate(route) == "ensureAdmin"

\* Routes whose handler validates the body against a JSON schema first.
ValidatedRoutes == {"POST /users", "PATCH /users/:username", "PATCH /jobs/:id"}

IdleReq == [pc |-> "idle", route |-> "", username |-> "", id |-> "",
            token |-> NoToken, bodyValid |-> TRUE, claims |-> NoClaims,
            gate |-> "pending", calls |-> 0, duplicate |-> FALSE, status |-> 0]

Pair(req) == <<req.username, req.id>>

\* A request arrives: the route, its path parameters, its token and body.
Arrive(r, routes) ==
    /\ reqs[r].pc = "idle"
    /\ \E route \in routes, u \in Usernames, id \in JobIds, token \in Tokens,
          valid \in BOOLEAN :
          /\ (route \notin ValidatedRoutes) => valid
          /\ reqs' = [reqs EXCEPT ![r] =
                [IdleReq EXCEPT !.pc = "gate", !.route = route,
                                !.username = u, !.id = id, !.token = token,
                                !.bodyValid = valid]]
    /\ UNCHANGED <<applications, appliedLog, uniqueKey>>
    /\ UNCHANGED <<sqlVars, companyVars, jobVars>>

\* The token is verified and the route's middleware decides; a denial
\* answers 401 through next(err).
Gate(r) ==
    /\ reqs[r].pc = "gate"
    /\ LET req == reqs[r]
           claims == AuthenticateJWT(req.token)
           policy == IF req.route \in UserRoutes
                     THEN UserRouteGate(req.route)
                     ELSE JobRouteGate(req.route)
           decision == GateDecision(policy, claims, req.username)
       IN  reqs' = [reqs EXCEPT ![r] =
                [req EXCEPT !.claims = claims, !.gate = decision,
                            !.pc = IF decision = "Allowed" THEN "handler" ELSE "done",
                            !.status = IF decision = "Allowed" THEN 0 ELSE 401]]
    /\ UNCHANGED <<applications, appliedLog, uniqueKey>>
    /\ UNCHANGED <<sqlVars, companyVars, jobVars>>

HandlerMayRunMutant(req) == req.pc \in {"gate", "handler"}

\* router.METHOD(path, middleware, handler): the handler runs once the
\* middleware before it has called next() without an error.
HandlerMayRun(req) == req.pc = "handler"

\* The handler of every route but the apply route: the schema check of the
\* body where there is one, then one call of the model.
RunHandler(r) ==
    /\ HandlerMayRun(reqs[r])
    /\ reqs[r].route # ApplyRoute
    /\ LET req == reqs[r]
       IN  reqs' = [reqs EXCEPT ![r] =
                IF req.route \in ValidatedRoutes /\ ~req.bodyValid
                THEN [req EXCEPT !.pc = "done", !.status = 400]
                ELSE [req EXCEPT !.pc = "done", !.calls = @ + 1,
                                 !.status = IF req.route = "POST /users"
                                            THEN 201 ELSE 200]]
    /\ UNCHANGED <<applications, appliedLog, uniqueKey>>
    /\ UNCHANGED <<sqlVars, companyVars, jobVars>>

\* User.getApplication(username, jobId): the application, or undefined.
GetApplication(username, jobId) == applications[<<username, jobId>>] > 0

\* The apply handler up to its first await: the duplicate check reads the
\* applications table.
ApplyCheck(r) ==
    /\ HandlerMayRun(reqs[r])
    /\ reqs[r].route = ApplyRoute
    /\ reqs' = [reqs EXCEPT ![r] =
            [@ EXCEPT !.pc = "checked", !.calls = @ + 1,
                      !.duplicate = GetApplication(reqs[r].username, reqs[r].id)]]
    /\ UNCHANGED <<applications, appliedLog, uniqueKey>>
    /\ UNCHANGED <<sqlVars, companyVars, jobVars>>

\* The apply handler after the check: 400 on a duplicate, else User.apply
\* inserts the row and the handler answers { applied }; an insert the table
\* refuses ends in the error handler's 500.
ApplyInsert(r) ==
    /\ reqs[r].pc = "checked"
    /\ LET req == reqs[r]
           p == Pair(req)
       IN  IF req.duplicate
           THEN /\ reqs' = [reqs EXCEPT ![r] =
                        [req EXCEPT !.pc = "done", !.status = 400]]
                /\ UNCHANGED <<applications, appliedLog>>
           ELSE IF uniqueKey /\ applications[p] > 0
           THEN /\ reqs' = [reqs EXCEPT ![r] =
                        [req EXCEPT !.pc = "done", !.calls = @ + 1,
                                    !.status = 500]]
                /\ UNCHANGED <<applications, appliedLog>>
           ELSE /\ reqs' = [reqs EXCEPT ![r] =
                        [req EXCEPT !.pc = "done", !.calls = @ + 1,
                                    !.status = 200]]
                /\ applications' = [applications EXCEPT ![p] = @ + 1]
                /\ appliedLog' = [appliedLog EXCEPT ![p] = @ + 1]
    /\ UNCHANGED uniqueKey
    /\ UNCHANGED <<sqlVars, companyVars, jobVars>>

\* The response is sent and the request is over.
Finish(r) ==
    /\ reqs[r].pc = "done"
    /\ reqs' = [reqs EXCEPT ![r] = IdleReq]
    /\ UNCHANGED <<applications, appliedLog, uniqueKey>>
    /\ UNCHANGED <<sqlVars, companyVars, jobVars>>

NoApplications == [p \in Usernames \X JobIds |-> 0]

(***************************************************************************)
(* The specification of the gate: one request at a time on every route.    *)
(***************************************************************************)
InitGate ==
    /\ sqlCall = <<>>
    /\ faCall = <<>>
    /\ dbLog = <<>>
    /\ companies = {}
    /\ coCall = <<>>
    /\ jobs = {}
    /\ jobCall = <<>>
    /\ reqs = [r \in {1} |-> IdleReq]
    /\ applications = NoApplications
    /\ appliedLog = NoApplications
    /\ uniqueKey \in BOOLEAN

NextGate ==
    \/ Arrive(1, Routes)
    \/ Gate(1)
    \/ RunHandler(1)
    \/ ApplyCheck(1)
    \/ ApplyInsert(1)
    \/ Finish(1)

SpecGate == InitGate /\ [][NextGate]_vars

(***************************************************************************)
(* The specification of the apply route: MaxReqs requests in flight.       *)
(***************************************************************************)
InitApply ==
    /\ sqlCall = <<>>
    /\ faCall = <<>>
    /\ dbLog = <<>>
    /\ companies = {}
    /\ coCall = <<>>
    /\ jobs = {}
    /\ jobCall = <<>>
    /\ reqs = [r \in 1..MaxReqs |-> IdleReq]
    /\ applications = NoApplications
    /\ appliedLog = NoApplications
    /\ uniqueKey \in BOOLEAN

NextApply ==
    \E r \in 1..MaxReqs :
        \/ Arrive(r, {ApplyRoute})
        \/ Gate(r)
        \/ ApplyCheck(r)
        \/ ApplyInsert(r)
        \/ Finish(r)

SpecApply == InitApply /\ [][NextApply]_vars

IsUsernameRequest(req) == req.pc # "idle" /\ req.route \in UsernameRoutes

\* C7: on the routes under /users/:username the gate allows a request
\* exactly when its token verifies and its claims are elevated or name the
\* :username of the path; every other request is denied.
C7_SelfOrElevated ==
    \A r \in DOMAIN reqs :
        (IsUsernameRequest(reqs[r]) /\ reqs[r].gate # "pending") =>
            /\ reqs[r].gate = "Allowed" <=>
                  /\ reqs[r].token.kind = "valid"
                  /\ \/ reqs[r].token.isAdmin
                     \/ reqs[r].token.username = reqs[r].username
            /\ reqs[r].gate \in {"Allowed", "Denied"}
            /\ reqs[r].claims.present <=> reqs[r].token.kind = "valid"

\* A user who is not elevated was allowed to delete itself, having been
\* decided by the gate.
C7_Witness ==
    /\ reqs[1].route = "DELETE /users/:username"
    /\ reqs[1].token = SignedToken("u2", FALSE)
    /\ reqs[1].username = "u2"
    /\ reqs[1].gate = "Allowed"

\* C8: a request makes no call of a model or of the database before the
\* gate has allowed it; a denied request ends with 401, has made no call and
\* makes none afterwards, and leaves the stored applications as they were.
C8_GateBeforeLogic ==
    /\ [](\A r \in DOMAIN reqs :
            /\ (reqs[r].calls > 0 \/ reqs[r].pc = "checked")
                    => reqs[r].gate = "Allowed"
            /\ reqs[r].gate = "Denied"
                    => /\ reqs[r].calls = 0
                       /\ reqs[r].status = 401
                       /\ reqs[r].pc = "done"
            /\ (reqs[r].status # 0 /\ reqs[r].status # 401)
                    => reqs[r].gate = "Allowed")
    /\ [][\A r \in DOMAIN reqs :
            reqs[r].gate = "Denied" =>
                /\ applications' = applications
                /\ appliedLog' = appliedLog
                /\ reqs'[r] = IdleReq]_vars

\* An anonymous PATCH /jobs/:id was denied with 401.
C8_Witness ==
    /\ reqs[1].route = "PATCH /jobs/:id"
    /\ reqs[1].token = NoToken
    /\ reqs[1].gate = "Denied"
    /\ reqs[1].status = 401
    /\ reqs[1].calls = 0

\* C9: at most one application is recorded and at most one request is
\* answered `applied` per (username, job id), and an allowed apply request
\* that does not record an application is answered 400.
C9_AtMostOneApplication ==
    /\ \A p \in DOMAIN applications :
          applications[p] <= 1 /\ appliedLog[p] <= 1
    /\ \A r \in DOMAIN reqs :
          (reqs[r].pc = "done" /\ reqs[r].gate = "Allowed")
              => reqs[r].status \in {200, 400}

(***************************************************************************)
(* models/job.js: Job.findAll, and the jobs table it is run against        *)
(***************************************************************************)
\* Text that is searched is a sequence of characters.
Lower(c) == IF c = "J" THEN "j" ELSE c
LowerText(t) == [i \in 1..Len(t) |-> Lower(t[i])]

\* text ILIKE %pattern%: case-insensitive containment.
ILikeContains(text, pattern) ==
    \E i \in 0..(Len(text) - Len(pattern)) :
        \A j \in 1..Len(pattern) :
            LowerText(text)[i + j] = LowerText(pattern)[j]

\* equity is a NUMERIC column: NULL, or a number (in hundredths).

\* The rows the model tests seed (J1, J2, J3) and a job with equity 0.
JobRows ==
    { [id |-> 1, title |-> <<"J", "1">>, salary |-> 150000, equity |-> SqlNumber(1)],
      [id |-> 2, title |-> <<"J", "2">>, salary |-> 175000, equity |-> SqlNull],
      [id |-> 3, title |-> <<"J", "3">>, salary |-> 200000, equity |-> SqlNumber(3)],
      [id |-> 4, title |-> <<"K", "4">>, salary |-> 190000, equity |-> SqlNumber(0)] }

\* The values of a job filter; a title is kept as the characters searched.
JobStr(chars) == [type |-> "string", num |-> 0, str |-> "", chars |-> chars]
JobNum(n) == [type |-> "number", num |-> n, str |-> "", chars |-> <<>>]
JobBool(b) == [type |-> "boolean", num |-> IF b THEN 1 ELSE 0, str |-> "",
               chars |-> <<>>]
JobUndefined == [type |-> "undefined", num |-> 0, str |-> "", chars |-> <<>>]

TitleValues == {JobStr(<<"j">>), JobStr(<<"J", "1">>)}
SalaryValues == {JobNum(190000)}
EquityFlags == {JobBool(TRUE), JobBool(FALSE)}
JobOtherValues == {[JobUndefined EXCEPT !.type = "string", !.str = "fake"]}
JobFilterKeys == {"title", "minSalary", "hasEquity", "notValid"}

JobFilterValues(key) ==
    CASE key = "title" -> TitleValues
      [] key = "minSalary" -> SalaryValues
      [] key = "hasEquity" -> EquityFlags
      [] OTHER -> JobOtherValues

JobFilters ==
    UNION { { f \in [ks -> TitleValues \cup SalaryValues \cup EquityFlags
                            \cup JobOtherValues] :
                \A k \in ks : f[k] \in JobFilterValues(k) }
            : ks \in SUBSET JobFilterKeys }

\* const { key } = filters
JobFilterField(filters, key) ==
    IF key \in DOMAIN filters THEN filters[key] ELSE JobUndefined

\* A predicate of the WHERE clause: its column, its comparison, and the
\* positional value it is compared with (0: the literal zero).
Predicate(column, op, param) == [column |-> column, op |-> op, param |-> param]

JobWherePredicatesMutant(filters) ==
    LET title == JobFilterField(filters, "title")
        minSalary == JobFilterField(filters, "minSalary")
        hasEquity == JobFilterField(filters, "hasEquity")
        v1 == IF title # JobUndefined THEN <<title>> ELSE <<>>
        w1 == IF title # JobUndefined
              THEN <<Predicate("title", "ILIKE", Len(v1))>> ELSE <<>>
        v2 == IF minSalary # JobUndefined THEN Append(v1, minSalary) ELSE v1
        w2 == IF minSalary # JobUndefined
              THEN Append(w1, Predicate("salary", ">=", Len(v2))) ELSE w1
        w3 == IF hasEquity # JobUndefined
              THEN Append(w2, Predicate("equity", ">", 0)) ELSE w2
    IN  [whereStatements |-> w3, values |-> v2]

\* One predicate per present criterion, in the order title, minSalary,
\* hasEquity; hasEquity adds one only when it is true.
JobWherePredicates(filters) ==
    LET title == JobFilterField(filters, "title")
        minSalary == JobFilterField(filters, "minSalary")
        hasEquity == JobFilterField(filters, "hasEquity")
        v1 == IF title # JobUndefined THEN <<title>> ELSE <<>>
        w1 == IF title # JobUndefined
              THEN <<Predicate("title", "ILIKE", Len(v1))>> ELSE <<>>
        v2 == IF minSalary # JobUndefined THEN Append(v1, minSalary) ELSE v1
        w2 == IF minSalary # JobUndefined
              THEN Append(w1, Predicate("salary", ">=", Len(v2))) ELSE w1
        w3 == IF hasEquity = JobBool(TRUE)
              THEN Append(w2, Predicate("equity", ">", 0)) ELSE w2
    IN  [whereStatements |-> w3, values |-> v2]

\* The value of one predicate on one row: "true", "false" or, for a
\* comparison with NULL, "unknown".
EvalPredicate(row, pred, values) ==
    CASE pred.column = "title" ->
            IF ILikeContains(row.title, values[pred.param].chars)
            THEN "true" ELSE "false"
      [] pred.column = "salary" ->
            IF row.salary >= values[pred.param].num THEN "true" ELSE "false"
      [] pred.column = "equity" ->
            IF row.equity.null THEN "unknown"
            ELSE IF row.equity.val > 0 THEN "true" ELSE "false"

\* SELECT ... FROM jobs WHERE p1 AND ... AND pn: the rows on which every
\* predicate is true.
ExecuteJobQuery(table, whereStatements, values) ==
    { row \in table :
        \A i \in 1..Len(whereStatements) :
            EvalPredicate(row, whereStatements[i], values) = "true" }

\* Job.findAll(filters): the composed query and the rows it selects (the
\* order of the rows, by title, is not kept).
JobFindAll(table, filters) ==
    LET w == JobWherePredicates(filters)
    IN  [kind |-> "rows",
         whereStatements |-> w.whereStatements,
         values |-> w.values,
         orderBy |-> "title",
         rows |-> ExecuteJobQuery(table, w.whereStatements, w.values)]

\* One call of Job.findAll(filters).
CallJobFindAll ==
    /\ jobCall.pc = "idle"
    /\ jobCall' = [jobCall EXCEPT !.pc = "done",
                                  !.result = JobFindAll(jobs, jobCall.filters)]
    /\ UNCHANGED jobs
    /\ UNCHANGED <<sqlVars, companyVars, routeVars>>

(***************************************************************************)
(* The specification of Job.findAll: one call on each jobs table and each  *)
(* filter object.                                                          *)
(***************************************************************************)
InitJob ==
    /\ sqlCall = <<>>
    /\ faCall = <<>>
    /\ dbLog = <<>>
    /\ companies = {}
    /\ coCall = <<>>
    /\ jobs \in SUBSET JobRows
    /\ jobCall \in [pc : {"idle"}, filters : JobFilters, result : {NoResult}]
    /\ reqs = <<>>
    /\ applications = <<>>
    /\ appliedLog = <<>>
    /\ uniqueKey = TRUE

NextJob == CallJobFindAll

SpecJob == InitJob /\ [][NextJob]_vars

\* The rows of the table that pass the title and minSalary criteria.
PassOtherCriteria(table, filters) ==
    { row \in table :
        /\ "title" \in DOMAIN filters =>
              ILikeContains(row.title, filters["title"].chars)
        /\ "minSalary" \in DOMAIN filters =>
              row.salary >= filters["minSalary"].num }

\* C10: with hasEquity true the result is the jobs that pass the other
\* criteria and whose equity is not null and greater than zero; with
\* hasEquity false or absent it is all the jobs that pass the other
\* criteria, those with null equity included.
C10_HasEquity ==
    jobCall.pc = "done" =>
        LET f == jobCall.filters
            others == PassOtherCriteria(jobs, f)
        IN  IF "hasEquity" \in DOMAIN f /\ f["hasEquity"] = JobBool(TRUE)
            THEN jobCall.result.rows =
                    { row \in others : ~row.equity.null /\ row.equity.val > 0 }
            ELSE jobCall.result.rows = others

\* hasEquity true was run on a table with a null, a zero and a positive
\* equity, and hasEquity false on a table with a null equity.
C10_Witness ==
    /\ jobCall.pc = "done"
    /\ jobs = JobRows
    /\ DOMAIN jobCall.filters = {"hasEquity"}
    /\ jobCall.filters["hasEquity"] = JobBool(TRUE)
    /\ Cardinality(jobCall.result.rows) = 2

====
